---- MODULE Spec2Model ----
(***************************************************************************)
(* A model of the debugid crate (src/src/lib.rs): the DebugId constructors, *)
(* its two parsers (FromStr and from_breakpad, both over parse_str), its    *)
(* two formatters (Display and BreakpadFormat) and the CodeId constructors. *)
(*                                                                         *)
(* A string is the sequence of its UTF-8 bytes (0..255), as a Rust &str is; *)
(* len() is the byte length.  A u32 is the pair <<hi, lo>> of its 16-bit    *)
(* halves, so that all 32 bits are kept.  Option/Result are sequences:      *)
(* None/Err is <<>> and Some(v)/Ok(v) is <<v>>.                             *)
(***************************************************************************)
EXTENDS Integers, Sequences, FiniteSets

VARIABLES made, string, fmt, edits, out, prev

vars == <<made, string, fmt, edits, out, prev>>

\* ------------------------------------------------------------ Option
None == <<>>

Some(v) == <<v>>

\* ------------------------------------------------------------ bytes
\* u8::is_ascii_hexdigit / char::is_ascii_hexdigit: 0-9, A-F, a-f
is_ascii_hexdigit(c) ==
    \/ (c >= 48 /\ c <= 57)
    \/ (c >= 65 /\ c <= 70)
    \/ (c >= 97 /\ c <= 102)

\* u8::to_ascii_lowercase: only A-Z change
to_ascii_lowercase(c) == IF c >= 65 /\ c <= 90 THEN c + 32 ELSE c

\* u8::to_ascii_uppercase: only a-z change
to_ascii_uppercase(c) == IF c >= 97 /\ c <= 122 THEN c - 32 ELSE c

\* String::make_ascii_lowercase
make_ascii_lowercase(s) == [i \in 1..Len(s) |-> to_ascii_lowercase(s[i])]

\* str::to_ascii_uppercase
make_ascii_uppercase(s) == [i \in 1..Len(s) |-> to_ascii_uppercase(s[i])]

\* str::is_ascii
is_ascii_unchecked(s) == TRUE

is_ascii(s) == \A i \in 1..Len(s) : s[i] < 128

\* str::is_char_boundary(i), i a 0-based byte offset: the start, the end, or
\* a byte that is not a UTF-8 continuation byte (0b10xxxxxx)
is_char_boundary(s, i) ==
    \/ i = 0
    \/ i = Len(s)
    \/ (i < Len(s) /\ ~(s[i + 1] >= 128 /\ s[i + 1] < 192))

\* str::get(a..b), 0-based half-open: None unless the range is in bounds and
\* both ends are character boundaries
str_get(s, a, b) ==
    IF a <= b /\ b <= Len(s) /\ is_char_boundary(s, a) /\ is_char_boundary(s, b)
    THEN Some(SubSeq(s, a + 1, b))
    ELSE None

\* ------------------------------------------------------------ u32
\* char::to_digit(16): the digit's value, or -1 for None
to_digit_lower_only(c) ==
    IF c >= 48 /\ c <= 57 THEN c - 48
    ELSE IF c >= 97 /\ c <= 102 THEN c - 97 + 10
    ELSE -1

to_digit(c) ==
    IF c >= 48 /\ c <= 57 THEN c - 48
    ELSE IF c >= 97 /\ c <= 102 THEN c - 97 + 10
    ELSE IF c >= 65 /\ c <= 70 THEN c - 65 + 10
    ELSE -1

\* The digit loop of u32::from_str_radix(_, 16): result = result * 16 + digit
\* with both steps checked; acc is Some(<<hi, lo>>) and None once a character
\* is no digit or the value leaves 32 bits.
RECURSIVE radix_loop(_, _, _)
radix_loop(digits, i, acc) ==
    IF i > Len(digits) THEN Some(acc)
    ELSE LET d == to_digit(digits[i])
             hi == acc[1] * 16 + (acc[2] \div 4096)
             lo == (acc[2] % 4096) * 16 + d
         IN  IF d < 0 THEN None
             ELSE IF hi > 65535 THEN None
             ELSE radix_loop(digits, i + 1, <<hi, lo>>)

\* u32::from_str_radix(src, 16): an empty string and a lone sign are errors,
\* one leading '+' is accepted (a '-' is not, u32 being unsigned)
from_str_radix(src) ==
    IF Len(src) = 0 THEN None
    ELSE IF src[1] = 43
         THEN IF Len(src) = 1 THEN None ELSE radix_loop(Tail(src), 1, <<0, 0>>)
         ELSE radix_loop(src, 1, <<0, 0>>)

\* The eight hex digits of a u32, most significant first
nibbles(v) ==
    << v[1] \div 4096, (v[1] \div 256) % 16, (v[1] \div 16) % 16, v[1] % 16,
       v[2] \div 4096, (v[2] \div 256) % 16, (v[2] \div 16) % 16, v[2] % 16 >>

lower_hex_digit(n) == IF n < 10 THEN 48 + n ELSE 97 + n - 10

upper_hex_digit(n) == IF n < 10 THEN 48 + n ELSE 65 + n - 10

RECURSIVE strip_zeros(_)
strip_zeros(ds) ==
    IF Len(ds) > 1 /\ ds[1] = 0 THEN strip_zeros(Tail(ds)) ELSE ds

\* format!("{:x}", v): lowercase, no padding, at least one digit
fmt_lower_hex(v) ==
    LET ds == strip_zeros(nibbles(v))
    IN  [i \in 1..Len(ds) |-> lower_hex_digit(ds[i])]

\* format!("{:08X}", v): uppercase, zero-padded to 8 digits
fmt_upper_hex_08(v) ==
    LET ds == nibbles(v)
    IN  [i \in 1..8 |-> upper_hex_digit(ds[i])]

\* ------------------------------------------------------------ Uuid
\* A Uuid is its 16 bytes.  Byte k (1-based) of the hex text of the bytes.
uuid_hex(bytes, upper) ==
    [i \in 1..32 |->
        LET b == bytes[(i + 1) \div 2]
            n == IF i % 2 = 1 THEN b \div 16 ELSE b % 16
        IN  IF upper THEN upper_hex_digit(n) ELSE lower_hex_digit(n)]

\* Uuid's Display: hyphenated, lowercase, 8-4-4-4-12
uuid_fmt_hyphenated(bytes) ==
    LET h == uuid_hex(bytes, FALSE)
    IN  SubSeq(h, 1, 8) \o <<45>> \o SubSeq(h, 9, 12) \o <<45>>
        \o SubSeq(h, 13, 16) \o <<45>> \o SubSeq(h, 17, 20) \o <<45>>
        \o SubSeq(h, 21, 32)

\* format!("{:X}", uuid.to_simple_ref()): 32 uppercase digits, no hyphens
uuid_fmt_simple_upper(bytes) == uuid_hex(bytes, TRUE)

\* The bytes of 32 hex digits
uuid_from_hex(h) ==
    [k \in 1..16 |-> to_digit(h[2 * k - 1]) * 16 + to_digit(h[2 * k])]

\* Uuid::parse_str on a string of 32 or 36 bytes (the only lengths parse_str
\* hands it): 32 hex digits, or the 8-4-4-4-12 form with its four hyphens
uuid_parse_str(s) ==
    IF Len(s) = 32
    THEN IF \A i \in 1..32 : is_ascii_hexdigit(s[i])
         THEN Some(uuid_from_hex(s)) ELSE None
    ELSE IF Len(s) = 36
    THEN IF \A i \in 1..36 :
                IF i \in {9, 14, 19, 24} THEN s[i] = 45
                ELSE is_ascii_hexdigit(s[i])
         THEN Some(uuid_from_hex(SubSeq(s, 1, 8) \o SubSeq(s, 10, 13)
                    \o SubSeq(s, 15, 18) \o SubSeq(s, 20, 23)
                    \o SubSeq(s, 25, 36)))
         ELSE None
    ELSE None

uuid_nil == [k \in 1..16 |-> 0]

\* ------------------------------------------------------------ DebugId
\* Identifier::Pdb20(u32) / Identifier::Uuid(Uuid)
Pdb20(timestamp) == [tag |-> "Pdb20", val |-> timestamp]

Uuid(uuid) == [tag |-> "Uuid", val |-> uuid]

\* [0; 12]
padding == [k \in 1..12 |-> 0]

\* DebugId::from_parts
from_parts(uuid, appendix) ==
    [id |-> Uuid(uuid), appendix |-> appendix, padding |-> padding]

\* DebugId::from_uuid
from_uuid(uuid) == from_parts(uuid, <<0, 0>>)

\* DebugId::nil: Default of every field, the id being Uuid(Uuid::default())
nil == [id |-> Uuid(uuid_nil), appendix |-> <<0, 0>>, padding |-> padding]

\* The byte order from_guid_age hands to Uuid::from_bytes (1-based here)
guid_no_swap(guid) == [k \in 1..16 |-> guid[k]]

guid_to_uuid(guid) ==
    << guid[4], guid[3], guid[2], guid[1], guid[6], guid[5], guid[8], guid[7],
       guid[9], guid[10], guid[11], guid[12], guid[13], guid[14], guid[15],
       guid[16] >>

\* DebugId::from_guid_age
from_guid_age(guid, age) ==
    IF Len(guid) # 16 THEN None
    ELSE Some(from_parts(guid_to_uuid(guid), age))

\* DebugId::from_timestamp_age
from_timestamp_age(timestamp, age) ==
    [id |-> Pdb20(timestamp), appendix |-> age, padding |-> padding]

\* DebugId::is_pdb20
is_pdb20(x) == x.id.tag = "Pdb20"

\* DebugId::is_nil
is_nil_any_appendix(x) ==
    IF x.id.tag = "Pdb20" THEN x.id.val = <<0, 0>> ELSE x.id.val = uuid_nil

is_nil(x) ==
    LET id_is_nil == IF x.id.tag = "Pdb20" THEN x.id.val = <<0, 0>>
                     ELSE x.id.val = uuid_nil
    IN  id_is_nil /\ x.appendix = <<0, 0>>

\* parse_str, line 202
is_hyphenated(s) == str_get(s, 8, 9) = Some(<<45>>)

\* parse_str, lines 208-209: can the PDB 2.0 format match?
is_pdb20_len_wide(s) ==
    \/ (is_hyphenated(s) /\ Len(s) >= 10 /\ Len(s) <= 41)
    \/ (~is_hyphenated(s) /\ Len(s) >= 9 /\ Len(s) <= 40)

is_pdb20_len(s) ==
    \/ (is_hyphenated(s) /\ Len(s) >= 10 /\ Len(s) <= 17)
    \/ (~is_hyphenated(s) /\ Len(s) >= 9 /\ Len(s) <= 16)

\* parse_str, lines 211-218: the PDB 2.0 branch; every `?` returns None
parse_pdb20(s) ==
    LET timestamp_str == str_get(s, 0, 8)
    IN  IF timestamp_str = None THEN None
        ELSE LET timestamp == from_str_radix(timestamp_str[1])
             IN  IF timestamp = None THEN None
                 ELSE LET appendix_str == IF is_hyphenated(s)
                                          THEN str_get(s, 9, Len(s))
                                          ELSE str_get(s, 8, Len(s))
                      IN  IF appendix_str = None THEN None
                          ELSE LET appendix == from_str_radix(appendix_str[1])
                               IN  IF appendix = None THEN None
                                   ELSE Some(from_timestamp_age(timestamp[1],
                                                                appendix[1]))

\* parse_str, lines 228-241: the appendix after a parsed UUID of uuid_len bytes
parse_appendix_no_tail(s, uuid, uuid_len, options) ==
    LET appendix_str == SubSeq(s, uuid_len + 1, Len(s))
        starts_with_hyphen == Len(appendix_str) > 0 /\ appendix_str[1] = 45
    IN  IF is_hyphenated(s) # starts_with_hyphen THEN None
        ELSE LET skipped == IF is_hyphenated(s) THEN Tail(appendix_str)
                            ELSE appendix_str
                 appendix == from_str_radix(skipped)
             IN  IF appendix = None THEN None
                 ELSE Some(from_parts(uuid, appendix[1]))

parse_appendix(s, uuid, uuid_len, options) ==
    LET appendix_str == SubSeq(s, uuid_len + 1, Len(s))
        starts_with_hyphen == Len(appendix_str) > 0 /\ appendix_str[1] = 45
    IN  IF is_hyphenated(s) # starts_with_hyphen THEN None
        ELSE LET skipped == IF is_hyphenated(s) THEN Tail(appendix_str)
                            ELSE appendix_str
                 cut == IF options.allow_tail /\ Len(skipped) > 8
                        THEN SubSeq(skipped, 1, 8) ELSE skipped
                 appendix == from_str_radix(cut)
             IN  IF appendix = None THEN None
                 ELSE Some(from_parts(uuid, appendix[1]))

\* parse_str, lines 221-241: the UUID branch
parse_uuid(s, options) ==
    LET uuid_len == IF is_hyphenated(s) THEN 36 ELSE 32
        prefix == str_get(s, 0, uuid_len)
    IN  IF prefix = None THEN None
        ELSE LET uuid == uuid_parse_str(prefix[1])
             IN  IF uuid = None THEN None
                 ELSE IF ~options.require_appendix /\ Len(s) = uuid_len
                      THEN Some(from_parts(uuid[1], <<0, 0>>))
                      ELSE parse_appendix(s, uuid[1], uuid_len, options)

\* DebugId::parse_str
parse_str(s, options) ==
    IF (is_hyphenated(s) /\ ~options.allow_hyphens) \/ ~is_ascii(s) THEN None
    ELSE IF is_pdb20_len(s) THEN parse_pdb20(s)
    ELSE parse_uuid(s, options)

\* DebugId::from_breakpad
from_breakpad(s) ==
    parse_str(s, [allow_hyphens |-> FALSE, require_appendix |-> TRUE,
                  allow_tail |-> FALSE])

\* <DebugId as FromStr>::from_str
from_str(s) ==
    parse_str(s, [allow_hyphens |-> TRUE, require_appendix |-> FALSE,
                  allow_tail |-> TRUE])

\* The index expression &s[a..b], 0-based half-open, panics unless the range
\* is in bounds and both ends are character boundaries
str_index_ok(s, a, b) ==
    a <= b /\ b <= Len(s) /\ is_char_boundary(s, a) /\ is_char_boundary(s, b)

\* parse_str, lines 228-236: one of the three index expressions
\* &string[uuid_len..], &appendix_str[1..], &appendix_str[..8] panics
parse_appendix_panics(s, uuid_len, options) ==
    IF ~str_index_ok(s, uuid_len, Len(s)) THEN TRUE
    ELSE LET appendix_str == SubSeq(s, uuid_len + 1, Len(s))
             starts_with_hyphen == Len(appendix_str) > 0 /\ appendix_str[1] = 45
         IN  IF is_hyphenated(s) # starts_with_hyphen THEN FALSE
             ELSE IF is_hyphenated(s) /\ ~str_index_ok(appendix_str, 1, Len(appendix_str))
             THEN TRUE
             ELSE LET skipped == IF is_hyphenated(s) THEN Tail(appendix_str)
                                 ELSE appendix_str
                  IN  /\ options.allow_tail
                      /\ Len(skipped) > 8
                      /\ ~str_index_ok(skipped, 0, 8)

\* DebugId::parse_str panics: it reaches line 228 (no early return, not the
\* PDB 2.0 branch, a UUID parsed, an appendix expected) and an index
\* expression there panics
parse_str_panics(s, options) ==
    /\ ~((is_hyphenated(s) /\ ~options.allow_hyphens) \/ ~is_ascii(s))
    /\ ~is_pdb20_len(s)
    /\ LET uuid_len == IF is_hyphenated(s) THEN 36 ELSE 32
           prefix == str_get(s, 0, uuid_len)
       IN  /\ prefix # None
           /\ uuid_parse_str(prefix[1]) # None
           /\ ~(~options.require_appendix /\ Len(s) = uuid_len)
           /\ parse_appendix_panics(s, uuid_len, options)

\* DebugId::from_breakpad panics
from_breakpad_panics(s) ==
    parse_str_panics(s, [allow_hyphens |-> FALSE, require_appendix |-> TRUE,
                         allow_tail |-> FALSE])

\* <DebugId as FromStr>::from_str panics
from_str_panics(s) ==
    parse_str_panics(s, [allow_hyphens |-> TRUE, require_appendix |-> FALSE,
                         allow_tail |-> TRUE])

\* <DebugId as Display>::fmt
Display_always_appendix(x) ==
    (IF x.id.tag = "Pdb20" THEN fmt_upper_hex_08(x.id.val)
     ELSE uuid_fmt_hyphenated(x.id.val))
    \o <<45>> \o fmt_lower_hex(x.appendix)

Display(x) ==
    (IF x.id.tag = "Pdb20" THEN fmt_upper_hex_08(x.id.val)
     ELSE uuid_fmt_hyphenated(x.id.val))
    \o (IF x.appendix # <<0, 0>> THEN <<45>> \o fmt_lower_hex(x.appendix)
        ELSE <<>>)

\* <BreakpadFormat as Display>::fmt
BreakpadFormat_omit_zero(x) ==
    (IF x.id.tag = "Pdb20" THEN fmt_upper_hex_08(x.id.val)
     ELSE uuid_fmt_simple_upper(x.id.val))
    \o (IF x.appendix # <<0, 0>> THEN fmt_lower_hex(x.appendix) ELSE <<>>)

BreakpadFormat(x) ==
    IF x.id.tag = "Pdb20"
    THEN fmt_upper_hex_08(x.id.val) \o fmt_lower_hex(x.appendix)
    ELSE uuid_fmt_simple_upper(x.id.val) \o fmt_lower_hex(x.appendix)

\* ------------------------------------------------------------ CodeId
\* String::retain(|c| c.is_ascii_hexdigit()); every byte of a multi-byte
\* character is >= 128, so dropping the character drops exactly its bytes
retain_alphanumeric(s) ==
    SelectSeq(s, LAMBDA c : \/ is_ascii_hexdigit(c)
                            \/ (c >= 65 /\ c <= 90) \/ (c >= 97 /\ c <= 122))

retain_hexdigit(s) == SelectSeq(s, is_ascii_hexdigit)

\* CodeId::new
CodeId_new_keep_case(s) == retain_hexdigit(s)

CodeId_new(s) == make_ascii_lowercase(retain_hexdigit(s))

\* CodeId::nil
CodeId_nil == <<>>

\* CodeId::from_binary: write!("{:02x}", byte) for each byte, then new
RECURSIVE binary_hex(_)
binary_hex(slice) ==
    IF slice = <<>> THEN <<>>
    ELSE << lower_hex_digit(slice[1] \div 16), lower_hex_digit(slice[1] % 16) >>
         \o binary_hex(Tail(slice))

CodeId_from_binary(slice) == CodeId_new(binary_hex(slice))

\* <CodeId as From<String>>::from and <CodeId as From<&str>>::from
CodeId_from(s) == CodeId_new(s)

\* <CodeId as FromStr>::from_str: always Ok
CodeId_from_str(s) == Some(CodeId_new(s))

\* CodeId::as_str and <CodeId as Display>::fmt
as_str(code) == code

\* ------------------------------------------------------------ inputs
\* The number of times the caller rewrites the text between calls
MaxEdits == 1

\* Uuid::nil() and dfb8e43a-f242-3d73-a453-aeb6a777ef75
Uuids ==
    { uuid_nil,
      <<223, 184, 228, 58, 242, 66, 61, 115, 164, 83, 174, 182, 167, 119, 239, 117>> }

\* 0, 0xa and 0xfeedface
Appendices == { <<0, 0>>, <<0, 10>>, <<65261, 64206>> }

\* 0, 0x2a and 0xdfb8e43a
Timestamps == { <<0, 0>>, <<0, 42>>, <<57272, 58426>> }

\* Little-endian GUIDs of 16, 15, 17 and 0 bytes
Guids ==
    { <<58, 228, 184, 223, 66, 242, 115, 61, 164, 83, 174, 182, 167, 119, 239, 117>>,
      <<58, 228, 184, 223, 66, 242, 115, 61, 164, 83, 174, 182, 167, 119, 239>>,
      <<58, 228, 184, 223, 66, 242, 115, 61, 164, 83, 174, 182, 167, 119, 239, 117, 1>>,
      <<>> }

\* Binary slices for CodeId::from_binary
Slices == { <<>>, <<223, 184>>, <<10, 255, 0>> }

\* What the caller appends: nothing, "1", "g", "+1", "-a", "000000001",
\* the two bytes of U+00E9 and "FF"
Tails ==
    { <<>>, <<49>>, <<103>>, <<43, 49>>, <<45, 97>>,
      <<48, 48, 48, 48, 48, 48, 48, 48, 49>>, <<195, 169>>, <<70, 70>> }

\* Where the caller cuts the text before appending
CutPoints(s) ==
    { n \in {0, 8, 9, 32, 36, Len(s) - 1, Len(s)} : n >= 0 /\ n <= Len(s) }

NoCall == [op |-> "none", arg |-> <<>>, res |-> <<>>, panic |-> FALSE]

\* ------------------------------------------------------------ state machine
\* One behaviour is one use of the library: an identifier is constructed,
\* formatted, the text possibly rewritten by the caller, and read back.
\* made:   the last DebugId constructor call, its arguments and its result
\* string: the text at hand; fmt: the formatter that wrote it from made.res
\*         ("none" once the caller has rewritten it); edits: rewrites so far
\* out:    the last call that read `string`, its argument and its result;
\*         panic: the call panicked instead of returning
\* prev:   the from_str call on the text before the caller changed the case
\*         of its letters
Init ==
    /\ made = NoCall
    /\ string = <<>>
    /\ fmt = "none"
    /\ edits = 0
    /\ out = NoCall
    /\ prev = NoCall

\* No text has been written or read yet
Fresh == string = <<>> /\ edits = 0 /\ out = NoCall

Nil ==
    /\ Fresh
    /\ made' = [op |-> "nil", arg |-> <<>>, res |-> Some(nil), panic |-> FALSE]
    /\ UNCHANGED <<string, fmt, edits, out, prev>>

FromUuid ==
    /\ Fresh
    /\ \E u \in Uuids :
        made' = [op |-> "from_uuid", arg |-> <<u>>, res |-> Some(from_uuid(u)),
                 panic |-> FALSE]
    /\ UNCHANGED <<string, fmt, edits, out, prev>>

FromParts ==
    /\ Fresh
    /\ \E u \in Uuids, a \in Appendices :
        made' = [op |-> "from_parts", arg |-> <<u, a>>,
                 res |-> Some(from_parts(u, a)), panic |-> FALSE]
    /\ UNCHANGED <<string, fmt, edits, out, prev>>

FromGuidAge ==
    /\ Fresh
    /\ \E g \in Guids, a \in Appendices :
        made' = [op |-> "from_guid_age", arg |-> <<g, a>>,
                 res |-> from_guid_age(g, a), panic |-> FALSE]
    /\ UNCHANGED <<string, fmt, edits, out, prev>>

FromTimestampAge ==
    /\ Fresh
    /\ \E t \in Timestamps, a \in Appendices :
        made' = [op |-> "from_timestamp_age", arg |-> <<t, a>>,
                 res |-> Some(from_timestamp_age(t, a)), panic |-> FALSE]
    /\ UNCHANGED <<string, fmt, edits, out, prev>>

\* id.to_string()
to_string ==
    /\ made.res # None
    /\ edits = 0
    /\ string' = Display(made.res[1])
    /\ fmt' = "display"
    /\ out' = NoCall
    /\ prev' = NoCall
    /\ UNCHANGED <<made, edits>>

\* id.breakpad().to_string()
Breakpad ==
    /\ made.res # None
    /\ edits = 0
    /\ string' = BreakpadFormat(made.res[1])
    /\ fmt' = "breakpad"
    /\ out' = NoCall
    /\ prev' = NoCall
    /\ UNCHANGED <<made, edits>>

\* The caller keeps the first n bytes of the text and appends a tail
Splice ==
    /\ edits < MaxEdits
    /\ \E n \in CutPoints(string), tail \in Tails :
        /\ n < Len(string) \/ tail # <<>>
        /\ string' = SubSeq(string, 1, n) \o tail
    /\ fmt' = "none"
    /\ edits' = edits + 1
    /\ out' = NoCall
    /\ prev' = NoCall
    /\ UNCHANGED made

\* The caller uppercases a text it has parsed, to parse it again
Uppercase ==
    /\ out.op = "from_str"
    /\ prev = NoCall
    /\ string' = make_ascii_uppercase(string)
    /\ fmt' = "none"
    /\ prev' = out
    /\ out' = NoCall
    /\ UNCHANGED <<made, edits>>

\* The caller lowercases a text it has parsed, to parse it again
Lowercase ==
    /\ out.op = "from_str"
    /\ prev = NoCall
    /\ string' = make_ascii_lowercase(string)
    /\ fmt' = "none"
    /\ prev' = out
    /\ out' = NoCall
    /\ UNCHANGED <<made, edits>>

\* string.parse::<DebugId>()
FromStr ==
    /\ out' = [op |-> "from_str", arg |-> string,
               res |-> IF from_str_panics(string) THEN None ELSE from_str(string),
               panic |-> from_str_panics(string)]
    /\ UNCHANGED <<made, string, fmt, edits, prev>>

\* DebugId::from_breakpad(string)
FromBreakpad ==
    /\ out' = [op |-> "from_breakpad", arg |-> string,
               res |-> IF from_breakpad_panics(string) THEN None
                       ELSE from_breakpad(string),
               panic |-> from_breakpad_panics(string)]
    /\ UNCHANGED <<made, string, fmt, edits, prev>>

CodeIdNil ==
    /\ string = <<>>
    /\ out' = [op |-> "CodeId::nil", arg |-> <<>>, res |-> CodeId_nil,
               panic |-> FALSE]
    /\ UNCHANGED <<made, string, fmt, edits, prev>>

CodeIdNew ==
    /\ out' = [op |-> "CodeId::new", arg |-> string, res |-> CodeId_new(string),
               panic |-> FALSE]
    /\ UNCHANGED <<made, string, fmt, edits, prev>>

CodeIdFromBinary ==
    /\ string = <<>>
    /\ \E slice \in Slices :
        out' = [op |-> "CodeId::from_binary", arg |-> slice,
                res |-> CodeId_from_binary(slice), panic |-> FALSE]
    /\ UNCHANGED <<made, string, fmt, edits, prev>>

CodeIdFrom ==
    /\ out' = [op |-> "CodeId::from", arg |-> string, res |-> CodeId_from(string),
               panic |-> FALSE]
    /\ UNCHANGED <<made, string, fmt, edits, prev>>

\* string.parse::<CodeId>(), which is always Ok
CodeIdFromStr ==
    /\ out' = [op |-> "CodeId::from_str", arg |-> string,
               res |-> CodeId_from_str(string)[1], panic |-> FALSE]
    /\ UNCHANGED <<made, string, fmt, edits, prev>>

\* x.is_nil() on the DebugId a constructor returned
IsNilMade ==
    /\ made.res # None
    /\ string = <<>>
    /\ out = NoCall
    /\ out' = [op |-> "is_nil", arg |-> made.res,
               res |-> <<is_nil(made.res[1])>>, panic |-> FALSE]
    /\ UNCHANGED <<made, string, fmt, edits, prev>>

\* x.is_nil() on the DebugId the last parser call returned
IsNilParsed ==
    /\ out.op \in {"from_str", "from_breakpad"}
    /\ out.res # None
    /\ out' = [op |-> "is_nil", arg |-> out.res,
               res |-> <<is_nil(out.res[1])>>, panic |-> FALSE]
    /\ UNCHANGED <<made, string, fmt, edits, prev>>

Next ==
    \/ Nil
    \/ FromUuid
    \/ FromParts
    \/ FromGuidAge
    \/ FromTimestampAge
    \/ to_string
    \/ Breakpad
    \/ Splice
    \/ Uppercase
    \/ Lowercase
    \/ FromStr
    \/ FromBreakpad
    \/ CodeIdNil
    \/ CodeIdNew
    \/ CodeIdFromBinary
    \/ CodeIdFrom
    \/ CodeIdFromStr
    \/ IsNilMade
    \/ IsNilParsed

Spec == Init /\ [][Next]_vars

\* ------------------------------------------------------------ claims
\* The text is the unedited output of a formatter applied to made.res[1]
Formatted(kind) == fmt = kind /\ made.res # None

\* s consists of hex digits of either case only
AllHex(s) == \A i \in 1..Len(s) : is_ascii_hexdigit(s[i])

\* t is the minimal lowercase hex rendering of the u32 v
MinimalLowerHex(t, v) ==
    /\ Len(t) >= 1
    /\ \A i \in 1..Len(t) : (t[i] >= 48 /\ t[i] <= 57) \/ (t[i] >= 97 /\ t[i] <= 102)
    /\ Len(t) > 1 => t[1] # 48
    /\ from_str_radix(t) = Some(v)

\* C1 (as claimed): whenever from_str has read the unedited Display text of an
\* identifier built by from_parts or from_timestamp_age, it returned Ok of
\* that same identifier.
C1_DefaultRoundTrip ==
    (/\ out.op = "from_str"
     /\ Formatted("display")
     /\ made.op \in {"from_parts", "from_timestamp_age"})
    => out.res = made.res

\* C2: whenever from_breakpad has read the unedited Breakpad text of an
\* identifier built by from_parts or from_timestamp_age (appendix 0 included),
\* it returned Ok of that same identifier.
C2_BreakpadRoundTrip ==
    (/\ out.op = "from_breakpad"
     /\ Formatted("breakpad")
     /\ made.op \in {"from_parts", "from_timestamp_age"})
    => out.res = made.res

C2_Witness ==
    /\ out.op = "from_breakpad"
    /\ Formatted("breakpad")
    /\ made.op = "from_timestamp_age"
    /\ made.res[1].appendix = <<0, 0>>
    /\ Len(out.arg) = 9
    /\ out.res = made.res

\* C3 (as claimed): from_str returns an error for every text that is a valid
\* hyphenated UUID followed by '-' and more than 8 hex digits.
C3_LongAppendixRejected ==
    (/\ out.op = "from_str"
     /\ Len(out.arg) > 45
     /\ uuid_parse_str(SubSeq(out.arg, 1, 36)) # None
     /\ out.arg[37] = 45
     /\ AllHex(SubSeq(out.arg, 38, Len(out.arg))))
    => out.res = None

InLegacyWindow(s) ==
    IF Len(s) >= 9 /\ s[9] = 45
    THEN Len(s) >= 10 /\ Len(s) <= 17
    ELSE Len(s) >= 9 /\ Len(s) <= 16

\* The timestamp or the appendix field of a text in the window is no hex u32
LegacyFieldFails(s) ==
    \/ from_str_radix(SubSeq(s, 1, 8)) = None
    \/ from_str_radix(SubSeq(s, IF s[9] = 45 THEN 10 ELSE 9, Len(s))) = None

\* C5: in both parse modes a PDB 2.0 result comes only from a text whose
\* length is in the legacy window, a UUID result only from one outside it,
\* and a text in the window with a failing hex field is rejected.
C5_LegacyUuidDisjoint ==
    out.op \in {"from_str", "from_breakpad"} =>
        /\ (out.res # None /\ out.res[1].id.tag = "Pdb20") => InLegacyWindow(out.arg)
        /\ (out.res # None /\ out.res[1].id.tag = "Uuid") => ~InLegacyWindow(out.arg)
        /\ (InLegacyWindow(out.arg) /\ LegacyFieldFails(out.arg)) => out.res = None

C5_Witness ==
    /\ out.op = "from_str"
    /\ InLegacyWindow(out.arg)
    /\ is_ascii(out.arg)
    /\ from_str_radix(SubSeq(out.arg, 1, 8)) # None
    /\ LegacyFieldFails(out.arg)
    /\ out.res = None

\* C6 (as claimed): every text from_breakpad accepts is 8 or 32 hex digits
\* followed by 1 to 8 hex digits, and nothing else.
C6_BreakpadGrammar ==
    (out.op = "from_breakpad" /\ out.res # None) =>
        /\ AllHex(out.arg)
        /\ \/ (Len(out.arg) >= 9 /\ Len(out.arg) <= 16)
           \/ (Len(out.arg) >= 33 /\ Len(out.arg) <= 40)

\* The byte of the GUID that lands at each place of the UUID, 1-based
GuidOrder == <<4, 3, 2, 1, 6, 5, 8, 7, 9, 10, 11, 12, 13, 14, 15, 16>>

\* C7: from_guid_age fails exactly when the guid is not 16 bytes long, and
\* otherwise returns the UUID variant with appendix = age whose bytes are the
\* guid's with the first three fields byte-swapped, as from_parts builds it.
C7_GuidAge ==
    made.op = "from_guid_age" =>
        LET guid == made.arg[1]
            age == made.arg[2]
        IN  /\ made.res = None <=> Len(guid) # 16
            /\ made.res # None =>
                /\ made.res[1].id.tag = "Uuid"
                /\ made.res[1].appendix = age
                /\ \A k \in 1..16 : made.res[1].id.val[k] = guid[GuidOrder[k]]
                /\ made.res[1] = from_parts(made.res[1].id.val, age)

C7_Witness ==
    /\ made.op = "from_guid_age"
    /\ made.res # None
    /\ made.arg[1][1] # made.arg[1][4]
    /\ made.res[1].id.val[1] = made.arg[1][4]

\* C8: from_str gives the same result (equal value, or an error both times)
\* for an ASCII text and for the text uppercased or lowercased; and the
\* Display text of a UUID-variant identifier has no uppercase letter.
C8_CaseInsensitive ==
    /\ (/\ out.op = "from_str"
        /\ prev.op = "from_str"
        /\ is_ascii(prev.arg)
        /\ out.arg \in {make_ascii_uppercase(prev.arg),
                        make_ascii_lowercase(prev.arg)})
       => out.res = prev.res
    /\ (Formatted("display") /\ made.res[1].id.tag = "Uuid")
       => \A i \in 1..Len(string) : ~(string[i] >= 65 /\ string[i] <= 90)

C8_Witness ==
    /\ out.op = "from_str"
    /\ prev.op = "from_str"
    /\ out.arg # prev.arg
    /\ out.arg = make_ascii_uppercase(prev.arg)
    /\ out.res # None
    /\ out.res[1].id.tag = "Uuid"
    /\ out.res[1].appendix = <<65261, 64206>>
    /\ out.res = prev.res

CodeIdCalls ==
    {"CodeId::nil", "CodeId::new", "CodeId::from_binary", "CodeId::from",
     "CodeId::from_str"}

HasUuidPrefix(s) ==
    IF Len(s) >= 9 /\ s[9] = 45
    THEN Len(s) >= 37 /\ uuid_parse_str(SubSeq(s, 1, 36)) # None /\ s[37] = 45
    ELSE Len(s) >= 33 /\ uuid_parse_str(SubSeq(s, 1, 32)) # None /\ s[33] # 45

UuidPrefix(s) ==
    IF s[9] = 45 THEN uuid_parse_str(SubSeq(s, 1, 36))[1]
    ELSE uuid_parse_str(SubSeq(s, 1, 32))[1]

AppendixField(s) ==
    IF s[9] = 45 THEN SubSeq(s, 38, Len(s)) ELSE SubSeq(s, 33, Len(s))

\* What from_str returns for a text with a long appendix field if only the
\* first 8 bytes of the field count
First8Outcome(s) ==
    LET v == from_str_radix(SubSeq(AppendixField(s), 1, 8))
    IN  IF v = None THEN None ELSE Some(from_parts(UuidPrefix(s), v[1]))

IsU32(v) == Len(v) = 2 /\ \A k \in 1..2 : v[k] >= 0 /\ v[k] <= 65535

\* A complete DebugId: a UUID of 16 bytes or a u32 timestamp, a u32 appendix
\* and the zero padding
IsDebugId(x) ==
    /\ x.id.tag \in {"Uuid", "Pdb20"}
    /\ x.id.tag = "Uuid" =>
          Len(x.id.val) = 16 /\ \A k \in 1..16 : x.id.val[k] >= 0 /\ x.id.val[k] <= 255
    /\ x.id.tag = "Pdb20" => IsU32(x.id.val)
    /\ IsU32(x.appendix)
    /\ x.padding = padding

\* C12: from_str and from_breakpad never panic, whatever the text (empty,
\* short, non-ASCII, any length): every index expression of parse_str is in
\* bounds, and the call returns an error or a complete DebugId.
C12_ParseTotal ==
    out.op \in {"from_str", "from_breakpad"} =>
        /\ ~out.panic
        /\ out.res = None \/ (Len(out.res) = 1 /\ IsDebugId(out.res[1]))

C12_Witness ==
    /\ out.op = "from_str"
    /\ ~is_ascii(out.arg)
    /\ Len(out.arg) > 45
    /\ HasUuidPrefix(out.arg)
    /\ ~is_char_boundary(AppendixField(out.arg), 8)
    /\ ~out.panic
    /\ out.res = None

\* C13 (as claimed): a DebugId from any constructor or parser is nil exactly
\* when it equals DebugId::nil().
C13_NilIffEqualsNil ==
    out.op = "is_nil" => (out.res[1] <=> out.arg[1] = nil)

\* C13 (amended): a DebugId from any constructor or parser is nil exactly
\* when it equals DebugId::nil() or from_timestamp_age(0, 0); the latter is
\* reported nil although it does not equal nil().
C13_NilIffAllZero ==
    /\ from_timestamp_age(<<0, 0>>, <<0, 0>>) # nil
    /\ out.op = "is_nil" =>
          (out.res[1] <=> \/ out.arg[1] = nil
                          \/ out.arg[1] = from_timestamp_age(<<0, 0>>, <<0, 0>>))

C13_Witness ==
    /\ out.op = "is_nil"
    /\ out.res[1]
    /\ is_pdb20(out.arg[1])
    /\ out.arg[1] # nil
    /\ string # <<>>

====
